---- MODULE Spec2Model ----
(***************************************************************************)
(* A model of the taskberry backend: the identity store (User documents),  *)
(* the task store (Task documents), the hierarchy resolver                 *)
(* (isUserInManagerTeam, getAssignableUsers) and the request handlers of   *)
(* routes/tasks.js and routes/users.js that read and write the two stores. *)
(* Every handler is one action: it reads the stores, decides, writes, and  *)
(* leaves its HTTP reply in the variable last.                             *)
(***************************************************************************)
EXTENDS Integers, FiniteSets, Sequences, TLC

VARIABLES
  users,    \* identity store: user id -> User document (exists = FALSE: no document)
  tasks,    \* task store: task id -> Task document (exists = FALSE: no document)
  now,      \* the wall clock read by new Date()
  edits,    \* number of identity-store writes made so far (bounded exploration)
  last,     \* the last request and the reply it got
  inflight  \* requests that have made their checks and not yet their write

vars == <<users, tasks, now, edits, last, inflight>>

----------------------------------------------------------------------------
(* Bounds of the exploration *)

MaxEdits == 2      \* identity-store writes (POST /api/users, PUT /api/users/:id) per run
MaxClock == 2      \* latest instant the clock reaches

----------------------------------------------------------------------------
(* Identifiers and enumerations *)

null == 0          \* a missing reference (supervisorId / managerId default)

\* The four accounts created at start-up by createDefaultAdmin / createSampleUsers.
Admin == 1
Manager == 2
Supervisor == 3
Member == 4

SeedIds == {Admin, Manager, Supervisor, Member}
NewIds == {5}                      \* ids handed to documents created later
UserIds == SeedIds \cup NewIds
TaskIds == {1}

Roles == {"super_admin", "manager", "supervisor", "member", "pending"}
UserStatuses == {"active", "pending_approval", "suspended"}
validStatuses == {"not-started", "in-progress", "completed"}
NoDate == 0

NoUser == [exists |-> FALSE, role |-> "none", status |-> "none",
           supervisorId |-> null, managerId |-> null,
           approvedBy |-> null, approvedAt |-> NoDate]

NoTask == [exists |-> FALSE, assigneeId |-> null, createdBy |-> null,
           status |-> "none", completedDate |-> NoDate, title |-> "none"]

\* User schema: role defaults to 'pending', status to 'pending_approval',
\* supervisorId and managerId to null; approvedBy and approvedAt start absent.
NewUser(role, status, supervisorId, managerId) ==
  [exists |-> TRUE,
   role |-> IF role = "absent" THEN "pending" ELSE role,
   status |-> IF status = "absent" THEN "pending_approval" ELSE status,
   supervisorId |-> supervisorId, managerId |-> managerId,
   approvedBy |-> null, approvedAt |-> NoDate]

\* A request and its reply. role is the role named in the body of a
\* user-management request, password what a login presented ("right" or
\* "wrong"), email what became of the notification the handler tried to send
\* ("none": it sent none), list the ids of the documents in a list reply,
\* fault the store call that failed while the request was handled.
NoRequest == [op |-> "none", actor |-> null, tid |-> null, target |-> null,
              status |-> "absent", code |-> 0, msg |-> "none", list |-> {},
              role |-> "absent", password |-> "absent", email |-> "none",
              fault |-> "none"]

Reply(op, actor, tid, target, status, code, msg) ==
  [op |-> op, actor |-> actor, tid |-> tid, target |-> target,
   status |-> status, code |-> code, msg |-> msg, list |-> {},
   role |-> "absent", password |-> "absent", email |-> "none",
   fault |-> "none"]

\* Requests are handled one at a time: a handler starts when no reply is
\* waiting to be sent.
Idle == last = NoRequest

\* Two requests may be under way at once. A request under way has read the
\* store and decided; seen is what it read (a task's status), granted whether
\* its checks let it go on to its write.
Slots == {1, 2}

NoFlight == [op |-> "none", actor |-> null, tid |-> null, target |-> null,
             status |-> "absent", role |-> "absent", seen |-> "none",
             code |-> 0, msg |-> "none"]

----------------------------------------------------------------------------
(* Store lookups *)

\* User.findById(id): a document or null
UserExists(id) == id \in UserIds /\ users[id].exists

\* Task.findById(id)
TaskExists(tid) == tid \in TaskIds /\ tasks[tid].exists

----------------------------------------------------------------------------
(* Hierarchy resolver *)

\* Variant: the supervisor hop for members is forgotten.
isUserInManagerTeam_directOnly(userId, managerId) ==
  /\ UserExists(userId)
  /\ users[userId].managerId # null
  /\ users[userId].managerId = managerId

isUserInManagerTeam(userId, managerId) ==
  IF ~UserExists(userId) THEN FALSE
  ELSE LET user == users[userId] IN
    \* Direct report to manager
    \/ (user.managerId # null /\ user.managerId = managerId)
    \* Member under supervisor who reports to manager
    \/ /\ user.role = "member"
       /\ user.supervisorId # null
       /\ UserExists(user.supervisorId)
       /\ users[user.supervisorId].managerId # null
       /\ users[user.supervisorId].managerId = managerId
    \* Supervisor reporting to manager
    \/ (user.role = "supervisor" /\ user.managerId # null /\ user.managerId = managerId)

\* User.find({ status: 'active' })
ActiveUsers == {u \in UserIds : users[u].exists /\ users[u].status = "active"}

\* Variant: a manager may assign to every member, whoever the member reports to.
ManagerCanAssign_anyMember(u, currentUser, allUsers) ==
  /\ u # currentUser
  /\ \/ (users[u].role = "supervisor" /\ users[u].managerId = currentUser)
     \/ users[u].role = "member"
     \/ users[u].role = "manager"

\* The filter of the 'manager' case
ManagerCanAssign(u, currentUser, allUsers) ==
  IF u = currentUser THEN FALSE
  ELSE
    \/ (users[u].role = "supervisor" /\ users[u].managerId # null
          /\ users[u].managerId = currentUser)
    \/ (users[u].role = "member" /\ users[u].managerId # null
          /\ users[u].managerId = currentUser)
    \/ /\ users[u].role = "member"
       /\ users[u].supervisorId # null
       /\ users[u].supervisorId \in allUsers      \* allUsers.find(...)
       /\ users[users[u].supervisorId].managerId # null
       /\ users[users[u].supervisorId].managerId = currentUser
    \/ users[u].role = "manager"

\* The filter of the 'supervisor' case
SupervisorCanAssign(u, currentUser) ==
  \/ u = currentUser
  \/ (users[u].role = "member" /\ users[u].supervisorId # null
        /\ users[u].supervisorId = currentUser)

\* getAssignableUsers(currentUser): the ids of the documents returned
getAssignableUsers(currentUser) ==
  LET allUsers == ActiveUsers
      role == users[currentUser].role
  IN CASE role = "super_admin" -> {u \in allUsers : u # currentUser}
       [] role = "manager" -> {u \in allUsers : ManagerCanAssign(u, currentUser, allUsers)}
       [] role = "supervisor" -> {u \in allUsers : SupervisorCanAssign(u, currentUser)}
       [] role = "member" -> {currentUser}
       [] OTHER -> {}

----------------------------------------------------------------------------
Init ==
  /\ users = [u \in UserIds |->
                IF u = Admin THEN NewUser("super_admin", "active", null, null)
                ELSE IF u = Manager THEN NewUser("manager", "active", null, null)
                ELSE IF u = Supervisor THEN NewUser("supervisor", "active", null, null)
                ELSE IF u = Member THEN NewUser("member", "active", null, null)
                ELSE NoUser]
  /\ tasks = [t \in TaskIds |-> NoTask]
  /\ now = 1
  /\ edits = 0
  /\ last = NoRequest
  /\ inflight = [s \in Slots |-> NoFlight]

----------------------------------------------------------------------------
(* Identity-store handlers (routes/users.js) *)

\* POST /api/users. email stands for the address given: the address of an
\* existing document, or a new one (the document then gets that id).
CreateUser(actor, email, role, supervisorId, managerId) ==
  /\ UserExists(actor)
  /\ Idle
  /\ edits < MaxEdits
  /\ IF users[email].exists
     THEN /\ last' = Reply("createUser", actor, null, email, "absent", 400, "User already exists")
          /\ UNCHANGED <<users, edits>>
     ELSE /\ users' = [users EXCEPT ![email] = NewUser(role, "absent", supervisorId, managerId)]
          /\ edits' = edits + 1
          /\ last' = Reply("createUser", actor, null, email, "absent", 200, "ok")
  /\ UNCHANGED <<tasks, now, inflight>>

\* PUT /api/users/:id. A field that is not given (role "absent", an id null) is
\* left out of userFields.
UpdateUser(actor, id, role, supervisorId, managerId) ==
  /\ UserExists(actor)
  /\ Idle
  /\ edits < MaxEdits
  /\ IF ~UserExists(id)
     THEN /\ last' = Reply("updateUser", actor, null, id, "absent", 404, "User not found")
          /\ UNCHANGED <<users, edits>>
     ELSE /\ users' = [users EXCEPT ![id] =
                 [@ EXCEPT !.role = IF role # "absent" THEN role ELSE @,
                           !.supervisorId = IF supervisorId # null THEN supervisorId ELSE @,
                           !.managerId = IF managerId # null THEN managerId ELSE @]]
          /\ edits' = edits + 1
          /\ last' = Reply("updateUser", actor, null, id, "absent", 200, "ok")
  /\ UNCHANGED <<tasks, now, inflight>>

----------------------------------------------------------------------------
(* User management (middleware/roles.js, routes/users.js, routes/auth.js) *)

validRoles == {"super_admin", "manager", "supervisor", "member"}

\* requireSuperAdmin: the status it answers with, 0 when it calls next().
requireSuperAdmin(actor) ==
  IF ~UserExists(actor) THEN 401
  ELSE IF users[actor].role # "super_admin" THEN 403
  ELSE 0

\* POST /api/auth/register (public): a new document with role 'pending' and
\* status 'pending_approval'; the reply carries a token for it.
Register(email) ==
  /\ Idle
  /\ edits < MaxEdits
  /\ IF users[email].exists
     THEN /\ last' = Reply("register", null, null, email, "absent", 400, "User already exists")
          /\ UNCHANGED <<users, edits>>
     ELSE /\ users' = [users EXCEPT ![email] = NewUser("pending", "pending_approval", null, null)]
          /\ edits' = edits + 1
          /\ last' = Reply("register", null, null, email, "absent", 201, "ok")
  /\ UNCHANGED <<tasks, now, inflight>>

\* GET /api/users: every document of the identity store
ListUsers(actor) ==
  /\ UserExists(actor)
  /\ Idle
  /\ last' =
       IF requireSuperAdmin(actor) # 0
         THEN Reply("listUsers", actor, null, null, "absent", requireSuperAdmin(actor),
                    "Access denied. Super admin privileges required.")
       ELSE [Reply("listUsers", actor, null, null, "absent", 200, "ok")
               EXCEPT !.list = {u \in UserIds : users[u].exists}]
  /\ UNCHANGED <<users, tasks, now, edits, inflight>>

\* The document PUT /api/users/:userId/approve writes: $set of status, role,
\* approvedBy, approvedAt, and of supervisorId / managerId when the body names
\* them.
ApprovedUser(user, actor, role, supervisorId, managerId) ==
  [user EXCEPT !.status = "active",
               !.role = role,
               !.approvedBy = actor,
               !.approvedAt = now,
               !.supervisorId = IF supervisorId # null THEN supervisorId ELSE @,
               !.managerId = IF managerId # null THEN managerId ELSE @]

\* Variant: a notification that cannot be sent fails the approval, which then
\* changes nothing.
ApproveUser_emailFails(actor, userId, role, supervisorId, managerId, emailOk) ==
  /\ UserExists(actor)
  /\ Idle
  /\ edits < MaxEdits
  /\ IF requireSuperAdmin(actor) # 0
     THEN /\ last' = [Reply("approveUser", actor, null, userId, "absent",
                            requireSuperAdmin(actor),
                            "Access denied. Super admin privileges required.")
                        EXCEPT !.role = role]
          /\ UNCHANGED <<users, edits>>
     ELSE IF ~UserExists(userId)
     THEN /\ last' = [Reply("approveUser", actor, null, userId, "absent", 404, "User not found")
                        EXCEPT !.role = role]
          /\ UNCHANGED <<users, edits>>
     ELSE IF users[userId].status # "pending_approval" \/ users[userId].role # "pending"
     THEN /\ last' = [Reply("approveUser", actor, null, userId, "absent", 400,
                            "User is not pending approval")
                        EXCEPT !.role = role]
          /\ UNCHANGED <<users, edits>>
     ELSE IF role \notin validRoles
     THEN /\ last' = [Reply("approveUser", actor, null, userId, "absent", 400, "Invalid role")
                        EXCEPT !.role = role]
          /\ UNCHANGED <<users, edits>>
     ELSE IF ~emailOk
     THEN /\ last' = [Reply("approveUser", actor, null, userId, "absent", 500,
                            "Server error during user approval")
                        EXCEPT !.role = role, !.email = "failed"]
          /\ UNCHANGED <<users, edits>>
     ELSE /\ users' = [users EXCEPT ![userId] =
                         ApprovedUser(@, actor, role, supervisorId, managerId)]
          /\ edits' = edits + 1
          /\ last' = [Reply("approveUser", actor, null, userId, "absent", 200,
                            "User approved successfully")
                        EXCEPT !.role = role, !.email = "sent"]
  /\ UNCHANGED <<tasks, now, inflight>>

\* PUT /api/users/:userId/approve. emailOk: whether sendApprovalEmail gets its
\* message out; when it throws, the handler logs and goes on.
ApproveUser(actor, userId, role, supervisorId, managerId, emailOk) ==
  /\ UserExists(actor)
  /\ Idle
  /\ edits < MaxEdits
  /\ IF requireSuperAdmin(actor) # 0
     THEN /\ last' = [Reply("approveUser", actor, null, userId, "absent",
                            requireSuperAdmin(actor),
                            "Access denied. Super admin privileges required.")
                        EXCEPT !.role = role]
          /\ UNCHANGED <<users, edits>>
     ELSE IF ~UserExists(userId)
     THEN /\ last' = [Reply("approveUser", actor, null, userId, "absent", 404, "User not found")
                        EXCEPT !.role = role]
          /\ UNCHANGED <<users, edits>>
     ELSE IF users[userId].status # "pending_approval" \/ users[userId].role # "pending"
     THEN /\ last' = [Reply("approveUser", actor, null, userId, "absent", 400,
                            "User is not pending approval")
                        EXCEPT !.role = role]
          /\ UNCHANGED <<users, edits>>
     ELSE IF role \notin validRoles
     THEN /\ last' = [Reply("approveUser", actor, null, userId, "absent", 400, "Invalid role")
                        EXCEPT !.role = role]
          /\ UNCHANGED <<users, edits>>
     ELSE /\ users' = [users EXCEPT ![userId] =
                         ApprovedUser(@, actor, role, supervisorId, managerId)]
          /\ edits' = edits + 1
          /\ last' = [Reply("approveUser", actor, null, userId, "absent", 200,
                            "User approved successfully")
                        EXCEPT !.role = role,
                               !.email = IF emailOk THEN "sent" ELSE "failed"]
  /\ UNCHANGED <<tasks, now, inflight>>

\* DELETE /api/users/:userId/reject. The rejection email is tried first; the
\* document is deleted whether or not it went out.
RejectUser(actor, userId, emailOk) ==
  /\ UserExists(actor)
  /\ Idle
  /\ edits < MaxEdits
  /\ IF requireSuperAdmin(actor) # 0
     THEN /\ last' = Reply("rejectUser", actor, null, userId, "absent",
                           requireSuperAdmin(actor),
                           "Access denied. Super admin privileges required.")
          /\ UNCHANGED <<users, edits>>
     ELSE IF ~UserExists(userId)
     THEN /\ last' = Reply("rejectUser", actor, null, userId, "absent", 404, "User not found")
          /\ UNCHANGED <<users, edits>>
     ELSE IF users[userId].status # "pending_approval" \/ users[userId].role # "pending"
     THEN /\ last' = Reply("rejectUser", actor, null, userId, "absent", 400,
                           "Can only reject pending users")
          /\ UNCHANGED <<users, edits>>
     ELSE /\ users' = [users EXCEPT ![userId] = NoUser]
          /\ edits' = edits + 1
          /\ last' = [Reply("rejectUser", actor, null, userId, "absent", 200,
                            "User rejected and removed successfully")
                        EXCEPT !.email = IF emailOk THEN "sent" ELSE "failed"]
  /\ UNCHANGED <<tasks, now, inflight>>

\* PUT /api/users/:userId/approve of a pending user in a run where
\* User.findByIdAndUpdate throws: the handler's catch answers 500 and the email
\* block below the update is never reached.
ApproveUserStoreFault(actor, userId, role) ==
  /\ UserExists(actor)
  /\ Idle
  /\ requireSuperAdmin(actor) = 0
  /\ UserExists(userId)
  /\ users[userId].status = "pending_approval" /\ users[userId].role = "pending"
  /\ role \in validRoles
  /\ last' = [Reply("approveUser", actor, null, userId, "absent", 500,
                     "Server error during user approval")
                 EXCEPT !.role = role, !.fault = "update"]
  /\ UNCHANGED <<users, tasks, now, edits, inflight>>

\* DELETE /api/users/:userId/reject of a pending user in a run where
\* User.findByIdAndDelete throws: the rejection email has been tried by then,
\* the handler's catch answers 500 and the record stays.
RejectUserStoreFault(actor, userId, emailOk) ==
  /\ UserExists(actor)
  /\ Idle
  /\ requireSuperAdmin(actor) = 0
  /\ UserExists(userId)
  /\ users[userId].status = "pending_approval" /\ users[userId].role = "pending"
  /\ last' = [Reply("rejectUser", actor, null, userId, "absent", 500, "Server error")
                 EXCEPT !.email = IF emailOk THEN "sent" ELSE "failed",
                        !.fault = "delete"]
  /\ UNCHANGED <<users, tasks, now, edits, inflight>>

\* PUT /api/users/:userId/approve up to its last await before the write: the
\* middleware's read of the actor, the read of the target and the checks on
\* it. A request that passes them waits in a slot.
BeginApproveUser(slot, actor, userId, role) ==
  /\ UserExists(actor)
  /\ Idle
  /\ inflight[slot] = NoFlight
  /\ IF requireSuperAdmin(actor) # 0
     THEN /\ last' = [Reply("approveUser", actor, null, userId, "absent",
                            requireSuperAdmin(actor),
                            "Access denied. Super admin privileges required.")
                        EXCEPT !.role = role]
          /\ UNCHANGED inflight
     ELSE IF ~UserExists(userId)
     THEN /\ last' = [Reply("approveUser", actor, null, userId, "absent", 404, "User not found")
                        EXCEPT !.role = role]
          /\ UNCHANGED inflight
     ELSE IF users[userId].status # "pending_approval" \/ users[userId].role # "pending"
     THEN /\ last' = [Reply("approveUser", actor, null, userId, "absent", 400,
                            "User is not pending approval")
                        EXCEPT !.role = role]
          /\ UNCHANGED inflight
     ELSE IF role \notin validRoles
     THEN /\ last' = [Reply("approveUser", actor, null, userId, "absent", 400, "Invalid role")
                        EXCEPT !.role = role]
          /\ UNCHANGED inflight
     ELSE /\ inflight' = [inflight EXCEPT ![slot] =
                            [NoFlight EXCEPT !.op = "approveUser", !.actor = actor,
                                             !.target = userId, !.role = role,
                                             !.seen = users[userId].status]]
          /\ UNCHANGED last
  /\ UNCHANGED <<users, tasks, now, edits>>

\* The findByIdAndUpdate of a waiting approval and what follows it: the update
\* is by id alone, whatever the record's status is by now; a record that is
\* gone gives 404.
CommitApproveUser(slot) ==
  LET f == inflight[slot]
  IN /\ f.op = "approveUser"
     /\ Idle
     /\ inflight' = [inflight EXCEPT ![slot] = NoFlight]
     /\ IF ~UserExists(f.target)
        THEN /\ last' = [Reply("approveUser", f.actor, null, f.target, "absent", 404,
                               "Failed to update user")
                           EXCEPT !.role = f.role]
             /\ UNCHANGED users
        ELSE /\ users' = [users EXCEPT ![f.target] = ApprovedUser(@, f.actor, f.role, null, null)]
             /\ last' = [Reply("approveUser", f.actor, null, f.target, "absent", 200,
                               "User approved successfully")
                           EXCEPT !.role = f.role, !.email = "sent"]
     /\ UNCHANGED <<tasks, now, edits>>

\* DELETE /api/users/:userId/reject up to its last await before the delete
BeginRejectUser(slot, actor, userId) ==
  /\ UserExists(actor)
  /\ Idle
  /\ inflight[slot] = NoFlight
  /\ IF requireSuperAdmin(actor) # 0
     THEN /\ last' = Reply("rejectUser", actor, null, userId, "absent",
                           requireSuperAdmin(actor),
                           "Access denied. Super admin privileges required.")
          /\ UNCHANGED inflight
     ELSE IF ~UserExists(userId)
     THEN /\ last' = Reply("rejectUser", actor, null, userId, "absent", 404, "User not found")
          /\ UNCHANGED inflight
     ELSE IF users[userId].status # "pending_approval" \/ users[userId].role # "pending"
     THEN /\ last' = Reply("rejectUser", actor, null, userId, "absent", 400,
                           "Can only reject pending users")
          /\ UNCHANGED inflight
     ELSE /\ inflight' = [inflight EXCEPT ![slot] =
                            [NoFlight EXCEPT !.op = "rejectUser", !.actor = actor,
                                             !.target = userId,
                                             !.seen = users[userId].status]]
          /\ UNCHANGED last
  /\ UNCHANGED <<users, tasks, now, edits>>

\* The findByIdAndDelete of a waiting rejection: by id alone, its result is not
\* looked at.
CommitRejectUser(slot) ==
  LET f == inflight[slot]
  IN /\ f.op = "rejectUser"
     /\ Idle
     /\ inflight' = [inflight EXCEPT ![slot] = NoFlight]
     /\ users' = [users EXCEPT ![f.target] = NoUser]
     /\ last' = [Reply("rejectUser", f.actor, null, f.target, "absent", 200,
                       "User rejected and removed successfully")
                   EXCEPT !.email = "sent"]
     /\ UNCHANGED <<tasks, now, edits>>

\* PUT /api/users/:userId/role up to its write: the middleware's read of the
\* actor and the handler's checks
BeginChangeUserRole(slot, actor, userId, role) ==
  /\ UserExists(actor)
  /\ Idle
  /\ inflight[slot] = NoFlight
  /\ IF requireSuperAdmin(actor) # 0
     THEN /\ last' = [Reply("changeUserRole", actor, null, userId, "absent",
                            requireSuperAdmin(actor),
                            "Access denied. Super admin privileges required.")
                        EXCEPT !.role = role]
          /\ UNCHANGED inflight
     ELSE IF actor = userId
     THEN /\ last' = [Reply("changeUserRole", actor, null, userId, "absent", 403,
                            "You cannot change your own role.")
                        EXCEPT !.role = role]
          /\ UNCHANGED inflight
     ELSE IF role \notin validRoles
     THEN /\ last' = [Reply("changeUserRole", actor, null, userId, "absent", 400, "Invalid role")
                        EXCEPT !.role = role]
          /\ UNCHANGED inflight
     ELSE /\ inflight' = [inflight EXCEPT ![slot] =
                            [NoFlight EXCEPT !.op = "changeUserRole", !.actor = actor,
                                             !.target = userId, !.role = role]]
          /\ UNCHANGED last
  /\ UNCHANGED <<users, tasks, now, edits>>

\* The findByIdAndUpdate of a waiting role change
CommitChangeUserRole(slot) ==
  LET f == inflight[slot]
  IN /\ f.op = "changeUserRole"
     /\ Idle
     /\ inflight' = [inflight EXCEPT ![slot] = NoFlight]
     /\ IF ~UserExists(f.target)
        THEN /\ last' = [Reply("changeUserRole", f.actor, null, f.target, "absent", 404,
                               "User not found")
                           EXCEPT !.role = f.role]
             /\ UNCHANGED users
        ELSE /\ users' = [users EXCEPT ![f.target].role = f.role]
             /\ last' = [Reply("changeUserRole", f.actor, null, f.target, "absent", 200,
                               "User role updated successfully")
                           EXCEPT !.role = f.role]
     /\ UNCHANGED <<tasks, now, edits>>

\* Variant: the tasks assigned to the deleted user go with it.
DeleteUser_cascade(actor, userId) ==
  /\ UserExists(actor)
  /\ Idle
  /\ edits < MaxEdits
  /\ IF requireSuperAdmin(actor) # 0
     THEN /\ last' = Reply("deleteUser", actor, null, userId, "absent",
                           requireSuperAdmin(actor),
                           "Access denied. Super admin privileges required.")
          /\ UNCHANGED <<users, edits, tasks>>
     ELSE IF actor = userId
     THEN /\ last' = Reply("deleteUser", actor, null, userId, "absent", 403,
                           "You cannot delete your own account for security reasons.")
          /\ UNCHANGED <<users, edits, tasks>>
     ELSE IF ~UserExists(userId)
     THEN /\ last' = Reply("deleteUser", actor, null, userId, "absent", 404, "User not found")
          /\ UNCHANGED <<users, edits, tasks>>
     ELSE IF users[userId].role = "super_admin"
     THEN /\ last' = Reply("deleteUser", actor, null, userId, "absent", 403,
                           "Cannot delete another super admin account.")
          /\ UNCHANGED <<users, edits, tasks>>
     ELSE /\ users' = [users EXCEPT ![userId] = NoUser]
          /\ tasks' = [t \in TaskIds |->
                         IF tasks[t].assigneeId = userId THEN NoTask ELSE tasks[t]]
          /\ edits' = edits + 1
          /\ last' = Reply("deleteUser", actor, null, userId, "absent", 200,
                           "Team member deleted successfully")
  /\ UNCHANGED <<now, inflight>>

\* Variant: the handler's own check of the target's role is left out.
DeleteUser_noAdminGuard(actor, userId) ==
  /\ UserExists(actor)
  /\ Idle
  /\ edits < MaxEdits
  /\ IF requireSuperAdmin(actor) # 0
     THEN /\ last' = Reply("deleteUser", actor, null, userId, "absent",
                           requireSuperAdmin(actor),
                           "Access denied. Super admin privileges required.")
          /\ UNCHANGED <<users, edits>>
     ELSE IF actor = userId
     THEN /\ last' = Reply("deleteUser", actor, null, userId, "absent", 403,
                           "You cannot delete your own account for security reasons.")
          /\ UNCHANGED <<users, edits>>
     ELSE IF ~UserExists(userId)
     THEN /\ last' = Reply("deleteUser", actor, null, userId, "absent", 404, "User not found")
          /\ UNCHANGED <<users, edits>>
     ELSE /\ users' = [users EXCEPT ![userId] = NoUser]
          /\ edits' = edits + 1
          /\ last' = Reply("deleteUser", actor, null, userId, "absent", 200,
                           "Team member deleted successfully")
  /\ UNCHANGED <<tasks, now, inflight>>

\* DELETE /api/users/:userId: requireSuperAdmin, canDeleteUser (no
\* self-deletion, the target must exist), then the handler.
DeleteUser(actor, userId) ==
  /\ UserExists(actor)
  /\ Idle
  /\ edits < MaxEdits
  /\ IF requireSuperAdmin(actor) # 0
     THEN /\ last' = Reply("deleteUser", actor, null, userId, "absent",
                           requireSuperAdmin(actor),
                           "Access denied. Super admin privileges required.")
          /\ UNCHANGED <<users, edits>>
     ELSE IF actor = userId
     THEN /\ last' = Reply("deleteUser", actor, null, userId, "absent", 403,
                           "You cannot delete your own account for security reasons.")
          /\ UNCHANGED <<users, edits>>
     ELSE IF ~UserExists(userId)
     THEN /\ last' = Reply("deleteUser", actor, null, userId, "absent", 404, "User not found")
          /\ UNCHANGED <<users, edits>>
     ELSE IF users[userId].role = "super_admin"
     THEN /\ last' = Reply("deleteUser", actor, null, userId, "absent", 403,
                           "Cannot delete another super admin account.")
          /\ UNCHANGED <<users, edits>>
     ELSE /\ users' = [users EXCEPT ![userId] = NoUser]
          /\ edits' = edits + 1
          /\ last' = Reply("deleteUser", actor, null, userId, "absent", 200,
                           "Team member deleted successfully")
  /\ UNCHANGED <<tasks, now, inflight>>

\* PUT /api/users/:userId/role
ChangeUserRole(actor, userId, role) ==
  /\ UserExists(actor)
  /\ Idle
  /\ edits < MaxEdits
  /\ IF requireSuperAdmin(actor) # 0
     THEN /\ last' = [Reply("changeUserRole", actor, null, userId, "absent",
                            requireSuperAdmin(actor),
                            "Access denied. Super admin privileges required.")
                        EXCEPT !.role = role]
          /\ UNCHANGED <<users, edits>>
     ELSE IF actor = userId
     THEN /\ last' = [Reply("changeUserRole", actor, null, userId, "absent", 403,
                            "You cannot change your own role.")
                        EXCEPT !.role = role]
          /\ UNCHANGED <<users, edits>>
     ELSE IF role \notin validRoles
     THEN /\ last' = [Reply("changeUserRole", actor, null, userId, "absent", 400, "Invalid role")
                        EXCEPT !.role = role]
          /\ UNCHANGED <<users, edits>>
     ELSE IF ~UserExists(userId)
     THEN /\ last' = [Reply("changeUserRole", actor, null, userId, "absent", 404, "User not found")
                        EXCEPT !.role = role]
          /\ UNCHANGED <<users, edits>>
     ELSE /\ users' = [users EXCEPT ![userId].role = role]
          /\ edits' = edits + 1
          /\ last' = [Reply("changeUserRole", actor, null, userId, "absent", 200,
                            "User role updated successfully")
                        EXCEPT !.role = role]
  /\ UNCHANGED <<tasks, now, inflight>>

\* POST /api/auth/approve-user: the target's status is checked, its role is
\* not; the role of the body is written as given and user.save() holds it
\* against the schema's enum, which has 'pending' in it.
AuthApproveUser(actor, userId, role, supervisorId, managerId) ==
  /\ UserExists(actor)
  /\ Idle
  /\ edits < MaxEdits
  /\ IF users[actor].role # "super_admin"
     THEN /\ last' = [Reply("approveUser", actor, null, userId, "absent", 403,
                            "Access denied. Super Admin only.")
                        EXCEPT !.role = role]
          /\ UNCHANGED <<users, edits>>
     ELSE IF ~UserExists(userId)
     THEN /\ last' = [Reply("approveUser", actor, null, userId, "absent", 404, "User not found")
                        EXCEPT !.role = role]
          /\ UNCHANGED <<users, edits>>
     ELSE IF users[userId].status # "pending_approval"
     THEN /\ last' = [Reply("approveUser", actor, null, userId, "absent", 400,
                            "User is not pending approval")
                        EXCEPT !.role = role]
          /\ UNCHANGED <<users, edits>>
     ELSE IF role \notin Roles
     THEN /\ last' = [Reply("approveUser", actor, null, userId, "absent", 500, "Server Error")
                        EXCEPT !.role = role]
          /\ UNCHANGED <<users, edits>>
     ELSE /\ users' = [users EXCEPT ![userId] =
                         [@ EXCEPT !.status = "active", !.role = role,
                                   !.supervisorId = supervisorId, !.managerId = managerId,
                                   !.approvedBy = actor, !.approvedAt = now]]
          /\ edits' = edits + 1
          /\ last' = [Reply("approveUser", actor, null, userId, "absent", 200,
                            "User approved successfully")
                        EXCEPT !.role = role]
  /\ UNCHANGED <<tasks, now, inflight>>

\* POST /api/auth/reject-user: whatever document the id names is deleted.
AuthRejectUser(actor, userId) ==
  /\ UserExists(actor)
  /\ Idle
  /\ edits < MaxEdits
  /\ IF users[actor].role # "super_admin"
     THEN /\ last' = Reply("rejectUser", actor, null, userId, "absent", 403,
                           "Access denied. Super Admin only.")
          /\ UNCHANGED <<users, edits>>
     ELSE IF ~UserExists(userId)
     THEN /\ last' = Reply("rejectUser", actor, null, userId, "absent", 404, "User not found")
          /\ UNCHANGED <<users, edits>>
     ELSE /\ users' = [users EXCEPT ![userId] = NoUser]
          /\ edits' = edits + 1
          /\ last' = Reply("rejectUser", actor, null, userId, "absent", 200,
                           "User rejected and removed")
  /\ UNCHANGED <<tasks, now, inflight>>

\* POST /api/auth/login (public). password: what comparePassword makes of the
\* password presented.
Login(email, password) ==
  /\ Idle
  /\ last' =
       IF ~UserExists(email)
         THEN [Reply("login", null, null, email, "absent", 400, "Invalid credentials")
                 EXCEPT !.password = password]
       ELSE IF password # "right"
         THEN [Reply("login", null, null, email, "absent", 400, "Invalid credentials")
                 EXCEPT !.password = password]
       ELSE [Reply("login", null, null, email, "absent", 200, "token")
               EXCEPT !.password = password]
  /\ UNCHANGED <<users, tasks, now, edits, inflight>>

\* POST /api/auth/forgot-password (public). emailOk: what sendPasswordResetEmail
\* returns. The reset token it stores is no part of the documents modelled.
ForgotPassword(email, emailOk) ==
  /\ Idle
  /\ last' =
       IF ~UserExists(email)
         THEN Reply("forgotPassword", null, null, email, "absent", 200,
                    "If an account with this email exists, we have sent password reset instructions.")
       ELSE IF emailOk
         THEN [Reply("forgotPassword", null, null, email, "absent", 200,
                     "Password reset instructions have been sent to your email.")
                 EXCEPT !.email = "sent"]
       ELSE [Reply("forgotPassword", null, null, email, "absent", 500,
                   "Failed to send reset email. Please try again later.")
               EXCEPT !.email = "failed"]
  /\ UNCHANGED <<users, tasks, now, edits, inflight>>

----------------------------------------------------------------------------
(* Task handlers (routes/tasks.js) *)

\* GET /api/tasks/assignable-users
ListAssignableUsers(actor) ==
  /\ UserExists(actor)
  /\ Idle
  /\ last' = [Reply("assignableUsers", actor, null, null, "absent", 200, "ok")
                EXCEPT !.list = getAssignableUsers(actor)]
  /\ UNCHANGED <<users, tasks, now, edits, inflight>>

\* The users whose tasks GET /api/tasks shows a manager: those with managerId
\* = the manager, those whose supervisorId names a user with managerId = the
\* manager, and the manager.
teamMembers(currentUser) ==
  LET reports == {v \in UserIds : users[v].exists /\ users[v].managerId = currentUser}
  IN {u \in UserIds : users[u].exists /\ (u \in reports \/ users[u].supervisorId \in reports)}
       \cup {currentUser}

\* The users whose tasks GET /api/tasks shows a supervisor
supervisorTeam(currentUser) ==
  {u \in UserIds : users[u].exists /\ users[u].supervisorId = currentUser} \cup {currentUser}

\* GET /api/tasks: the tasks selected for the actor's role
ListTasks(actor) ==
  /\ UserExists(actor)
  /\ Idle
  /\ LET role == users[actor].role
         shown ==
           CASE role = "super_admin" -> UserIds \cup {null}
             [] role = "manager" -> teamMembers(actor)
             [] role = "supervisor" -> supervisorTeam(actor)
             [] role = "member" -> {actor}
             [] OTHER -> {}
     IN last' = [Reply("listTasks", actor, null, null, "absent", 200, "ok")
                   EXCEPT !.list = {t \in TaskIds : tasks[t].exists /\ tasks[t].assigneeId \in shown}]
  /\ UNCHANGED <<users, tasks, now, edits, inflight>>

\* GET /api/tasks/user/:userId: the tasks assigned to one user
ListUserTasks(actor, userId) ==
  /\ UserExists(actor)
  /\ Idle
  /\ LET currentUser == users[actor]
         canView ==
           IF currentUser.role = "super_admin" THEN TRUE
           ELSE IF actor = userId THEN TRUE
           ELSE IF currentUser.role = "manager" THEN isUserInManagerTeam(userId, actor)
           ELSE IF currentUser.role = "supervisor"
             THEN /\ UserExists(userId)
                  /\ users[userId].supervisorId # null
                  /\ users[userId].supervisorId = actor
           ELSE FALSE
     IN last' =
          IF ~canView
            THEN Reply("userTasks", actor, null, userId, "absent", 403, "Access denied")
          ELSE [Reply("userTasks", actor, null, userId, "absent", 200, "ok")
                  EXCEPT !.list = {t \in TaskIds : tasks[t].exists /\ tasks[t].assigneeId = userId}]
  /\ UNCHANGED <<users, tasks, now, edits, inflight>>

\* The view rules of GET /api/tasks/:id, for a task whose assignee document
\* was found by populate.
hasViewPermission(actor, tid) ==
  LET currentUser == users[actor]
      task == tasks[tid]
  IN CASE currentUser.role = "super_admin" -> TRUE
       [] currentUser.role = "manager" ->
            \/ isUserInManagerTeam(task.assigneeId, actor)
            \/ (UserExists(task.createdBy) /\ task.createdBy = actor)
       [] currentUser.role = "supervisor" ->
            \/ task.assigneeId = actor
            \/ /\ UserExists(task.assigneeId)
               /\ users[task.assigneeId].supervisorId # null
               /\ users[task.assigneeId].supervisorId = actor
       [] currentUser.role = "member" -> task.assigneeId = actor
       [] OTHER -> FALSE

\* GET /api/tasks/:id. populate leaves assigneeId null when the referenced
\* document is gone; task.assigneeId._id then throws, which the catch block
\* answers with 500.
GetTask(actor, tid) ==
  /\ UserExists(actor)
  /\ Idle
  /\ last' =
       IF ~TaskExists(tid)
         THEN Reply("getTask", actor, tid, null, "absent", 404, "Task not found")
       ELSE IF users[actor].role # "super_admin" /\ users[actor].role \in Roles \ {"pending"}
               /\ ~UserExists(tasks[tid].assigneeId)
         THEN Reply("getTask", actor, tid, null, "absent", 500, "Server Error")
       ELSE IF ~hasViewPermission(actor, tid)
         THEN Reply("getTask", actor, tid, null, "absent", 403, "Access denied")
       ELSE Reply("getTask", actor, tid, null, "absent", 200, "ok")
  /\ UNCHANGED <<users, tasks, now, edits, inflight>>

\* Variant: the creator rule is applied to every role, not to managers only.
canDelete_anyCreator(actor, tid) ==
  \/ (tasks[tid].createdBy # null /\ tasks[tid].createdBy = actor)
  \/ (users[actor].role = "manager" /\ isUserInManagerTeam(tasks[tid].assigneeId, actor))
  \/ users[actor].role = "super_admin"

\* The delete rules of DELETE /api/tasks/:id
canDelete(actor, tid) ==
  LET currentUser == users[actor]
      task == tasks[tid]
  IN \/ /\ currentUser.role = "manager"
        /\ \/ (task.createdBy # null /\ task.createdBy = actor)
           \/ isUserInManagerTeam(task.assigneeId, actor)
     \/ currentUser.role = "super_admin"

\* DELETE /api/tasks/:id
DeleteTask(actor, tid) ==
  /\ UserExists(actor)
  /\ Idle
  /\ IF ~TaskExists(tid)
     THEN /\ last' = Reply("deleteTask", actor, tid, null, "absent", 404, "Task not found")
          /\ UNCHANGED tasks
     ELSE IF ~canDelete(actor, tid)
     THEN /\ last' = Reply("deleteTask", actor, tid, null, "absent", 403, "You cannot delete this task")
          /\ UNCHANGED tasks
     ELSE /\ tasks' = [tasks EXCEPT ![tid] = NoTask]
          /\ last' = Reply("deleteTask", actor, tid, null, "absent", 200, "ok")
  /\ UNCHANGED <<users, now, edits, inflight>>

\* POST /api/tasks. form stands for the rest of the body: "complete", "missing"
\* (no title or no targetDate), "baddate" (targetDate is no date) or
\* "nodescription" (the description is left out, which the Task schema rejects
\* on save). A status outside the schema's enum is rejected on save too.
CreateTask(actor, tid, assigneeId, status, form) ==
  /\ UserExists(actor)
  /\ Idle
  /\ ~tasks[tid].exists                   \* the id of the new document
  /\ IF form = "missing" \/ assigneeId = null
     THEN /\ last' = Reply("createTask", actor, tid, assigneeId, status, 400,
                           "Title, assignee, and target date are required")
          /\ UNCHANGED tasks
     ELSE IF ~UserExists(assigneeId)
     THEN /\ last' = Reply("createTask", actor, tid, assigneeId, status, 400, "Assignee not found")
          /\ UNCHANGED tasks
     ELSE IF assigneeId \notin getAssignableUsers(actor)
     THEN /\ last' = Reply("createTask", actor, tid, assigneeId, status, 403,
                           "You cannot assign tasks to this user")
          /\ UNCHANGED tasks
     ELSE IF form = "baddate"
     THEN /\ last' = Reply("createTask", actor, tid, assigneeId, status, 400,
                           "Invalid target date format")
          /\ UNCHANGED tasks
     ELSE IF form = "nodescription" \/ status \notin validStatuses \cup {"absent"}
     THEN /\ last' = Reply("createTask", actor, tid, assigneeId, status, 400, "Validation error")
          /\ UNCHANGED tasks
     ELSE /\ tasks' = [tasks EXCEPT ![tid] =
                 [exists |-> TRUE, assigneeId |-> assigneeId, createdBy |-> actor,
                  status |-> IF status = "absent" THEN "not-started" ELSE status,
                  completedDate |-> NoDate, title |-> "t1"]]
          /\ last' = Reply("createTask", actor, tid, assigneeId, status, 201, "ok")
  /\ UNCHANGED <<users, now, edits, inflight>>

\* Variant: the assignee rule forgets the role test.
canEdit_assigneeAnyRole(actor, tid) ==
  \/ (tasks[tid].createdBy # null /\ tasks[tid].createdBy = actor)
  \/ tasks[tid].assigneeId = actor
  \/ (users[actor].role = "manager" /\ isUserInManagerTeam(tasks[tid].assigneeId, actor))
  \/ /\ users[actor].role = "supervisor"
     /\ UserExists(tasks[tid].assigneeId)
     /\ users[tasks[tid].assigneeId].supervisorId = actor
  \/ users[actor].role = "super_admin"

\* The edit rules of PUT /api/tasks/:id
canEdit(actor, tid) ==
  LET currentUser == users[actor]
      task == tasks[tid]
  IN IF task.createdBy # null /\ task.createdBy = actor THEN TRUE
     ELSE IF task.assigneeId = actor
             /\ currentUser.role \in {"supervisor", "manager", "super_admin"} THEN TRUE
     ELSE IF currentUser.role = "manager" THEN isUserInManagerTeam(task.assigneeId, actor)
     ELSE IF currentUser.role = "supervisor"
       THEN /\ UserExists(task.assigneeId)
            /\ users[task.assigneeId].supervisorId # null
            /\ users[task.assigneeId].supervisorId = actor
     ELSE currentUser.role = "super_admin"

\* Variant: whoever may edit may reassign.
canReassign_anyEditor(actor, tid) == TRUE

\* The reassignment rules of PUT /api/tasks/:id
canReassign(actor, tid) ==
  LET currentUser == users[actor]
      task == tasks[tid]
  IN \/ (task.createdBy # null /\ task.createdBy = actor)
     \/ (task.assigneeId = actor
           /\ currentUser.role \in {"supervisor", "manager", "super_admin"})
     \/ currentUser.role = "manager"
     \/ currentUser.role = "super_admin"

\* The document PUT /api/tasks/:id writes with findByIdAndUpdate: $set of
\* updateFields, and $unset of completedDate whenever updateFields.completedDate
\* is undefined.
UpdatedTask(task, assigneeId, status, title) ==
  [task EXCEPT
     !.title = IF title # "absent" THEN title ELSE @,
     !.assigneeId = IF assigneeId # null THEN assigneeId ELSE @,
     !.status = IF status # "absent" THEN status ELSE @,
     !.completedDate = IF status = "completed" /\ task.status # "completed"
                       THEN now ELSE NoDate]

\* PUT /api/tasks/:id. title "absent" is a body without a title, "" an empty one.
\* Leaving completed puts completedDate: undefined into $set next to the $unset
\* of the same path: the driver either drops the undefined key and the update
\* goes through, or sends it and the store refuses the conflicting update.
UpdateTask(actor, tid, assigneeId, status, title) ==
  /\ UserExists(actor)
  /\ Idle
  /\ IF ~TaskExists(tid)
     THEN /\ last' = Reply("updateTask", actor, tid, assigneeId, status, 404, "Task not found")
          /\ UNCHANGED tasks
     ELSE IF ~canEdit(actor, tid)
     THEN /\ last' = Reply("updateTask", actor, tid, assigneeId, status, 403,
                           "You cannot edit this task")
          /\ UNCHANGED tasks
     ELSE IF assigneeId # null /\ assigneeId # tasks[tid].assigneeId /\ ~canReassign(actor, tid)
     THEN /\ last' = Reply("updateTask", actor, tid, assigneeId, status, 403,
                           "You cannot reassign this task")
          /\ UNCHANGED tasks
     ELSE IF assigneeId # null /\ assigneeId # tasks[tid].assigneeId /\ ~UserExists(assigneeId)
     THEN /\ last' = Reply("updateTask", actor, tid, assigneeId, status, 400,
                           "New assignee not found")
          /\ UNCHANGED tasks
     ELSE IF assigneeId # null /\ assigneeId # tasks[tid].assigneeId
             /\ assigneeId \notin getAssignableUsers(actor)
     THEN /\ last' = Reply("updateTask", actor, tid, assigneeId, status, 403,
                           "You cannot assign tasks to this user")
          /\ UNCHANGED tasks
     ELSE IF title = ""
     THEN /\ last' = Reply("updateTask", actor, tid, assigneeId, status, 400,
                           "Title cannot be empty")
          /\ UNCHANGED tasks
     ELSE IF status \notin validStatuses \cup {"absent"}
     THEN /\ last' = Reply("updateTask", actor, tid, assigneeId, status, 400,
                           "Invalid status value")
          /\ UNCHANGED tasks
     ELSE \/ /\ tasks' = [tasks EXCEPT ![tid] = UpdatedTask(@, assigneeId, status, title)]
             /\ last' = Reply("updateTask", actor, tid, assigneeId, status, 200, "ok")
          \/ /\ status \in validStatuses \ {"completed"}
             /\ tasks[tid].status = "completed"
             /\ last' = Reply("updateTask", actor, tid, assigneeId, status, 500, "Server Error")
             /\ UNCHANGED tasks
  /\ UNCHANGED <<users, now, edits, inflight>>

\* Variant: the assignee rule carries the role test of the edit rules.
canUpdate_assigneeNeedsRole(actor, tid) ==
  \/ (tasks[tid].assigneeId = actor
        /\ users[actor].role \in {"supervisor", "manager", "super_admin"})
  \/ (tasks[tid].createdBy # null /\ tasks[tid].createdBy = actor)
  \/ (users[actor].role = "manager" /\ isUserInManagerTeam(tasks[tid].assigneeId, actor))
  \/ /\ users[actor].role = "supervisor"
     /\ UserExists(tasks[tid].assigneeId)
     /\ users[tasks[tid].assigneeId].supervisorId = actor
  \/ users[actor].role = "super_admin"

\* The status-update rules of PUT /api/tasks/:id/status
canUpdate(actor, tid) ==
  LET currentUser == users[actor]
      task == tasks[tid]
  IN IF task.assigneeId = actor THEN TRUE
     ELSE IF task.createdBy # null /\ task.createdBy = actor THEN TRUE
     ELSE IF currentUser.role = "manager" THEN isUserInManagerTeam(task.assigneeId, actor)
     ELSE IF currentUser.role = "supervisor"
       THEN /\ UserExists(task.assigneeId)
            /\ users[task.assigneeId].supervisorId # null
            /\ users[task.assigneeId].supervisorId = actor
     ELSE currentUser.role = "super_admin"

\* Variant: completedDate is stamped on every request that sends completed.
StatusUpdatedTask_restamp(task, status) ==
  [task EXCEPT !.status = status,
               !.completedDate = IF status = "completed" THEN now
                                 ELSE IF task.status = "completed" THEN NoDate
                                 ELSE @]

\* The document PUT /api/tasks/:id/status writes: the new status, completedDate
\* set on the way into completed, unset on the way out, untouched otherwise.
StatusUpdatedTask(task, status) ==
  [task EXCEPT !.status = status,
               !.completedDate =
                  IF status = "completed" /\ task.status # "completed" THEN now
                  ELSE IF status # "completed" /\ task.status = "completed" THEN NoDate
                  ELSE @]

\* PUT /api/tasks/:id/status
UpdateTaskStatus(actor, tid, status) ==
  /\ UserExists(actor)
  /\ Idle
  /\ IF ~TaskExists(tid)
     THEN /\ last' = Reply("updateTaskStatus", actor, tid, null, status, 404, "Task not found")
          /\ UNCHANGED tasks
     ELSE IF status \notin validStatuses
     THEN /\ last' = Reply("updateTaskStatus", actor, tid, null, status, 400,
                           "Invalid status value")
          /\ UNCHANGED tasks
     ELSE IF ~canUpdate(actor, tid)
     THEN /\ last' = Reply("updateTaskStatus", actor, tid, null, status, 403,
                           "You cannot update this task status")
          /\ UNCHANGED tasks
     ELSE /\ tasks' = [tasks EXCEPT ![tid] = StatusUpdatedTask(@, status)]
          /\ last' = Reply("updateTaskStatus", actor, tid, null, status, 200, "ok")
  /\ UNCHANGED <<users, now, edits, inflight>>

\* PUT /api/tasks/:id/status up to its last await before the write: the reads
\* of the user and of the task and the checks made on them. A request that
\* passes them waits in a slot with the status it read.
BeginUpdateTaskStatus(slot, actor, tid, status) ==
  /\ UserExists(actor)
  /\ Idle
  /\ inflight[slot] = NoFlight
  /\ IF ~TaskExists(tid)
     THEN /\ last' = Reply("updateTaskStatus", actor, tid, null, status, 404, "Task not found")
          /\ UNCHANGED inflight
     ELSE IF status \notin validStatuses
     THEN /\ last' = Reply("updateTaskStatus", actor, tid, null, status, 400,
                           "Invalid status value")
          /\ UNCHANGED inflight
     ELSE IF ~canUpdate(actor, tid)
     THEN /\ last' = Reply("updateTaskStatus", actor, tid, null, status, 403,
                           "You cannot update this task status")
          /\ UNCHANGED inflight
     ELSE /\ inflight' = [inflight EXCEPT ![slot] =
                            [NoFlight EXCEPT !.op = "updateTaskStatus", !.actor = actor,
                                             !.tid = tid, !.status = status,
                                             !.seen = tasks[tid].status]]
          /\ UNCHANGED last
  /\ UNCHANGED <<users, tasks, now, edits>>

\* The findByIdAndUpdate of a waiting PUT /api/tasks/:id/status: the status
\* sent, and the completedDate change decided on the status read earlier. The
\* handler reads updatedTask._id without a null test, so a task deleted in
\* between ends in the catch.
CommitUpdateTaskStatus(slot) ==
  LET f == inflight[slot]
  IN /\ f.op = "updateTaskStatus"
     /\ Idle
     /\ inflight' = [inflight EXCEPT ![slot] = NoFlight]
     /\ IF ~TaskExists(f.tid)
        THEN /\ last' = Reply("updateTaskStatus", f.actor, f.tid, null, f.status, 500,
                              "Server error")
             /\ UNCHANGED tasks
        ELSE /\ tasks' = [tasks EXCEPT ![f.tid] =
                            [@ EXCEPT !.status = f.status,
                                      !.completedDate =
                                         IF f.status = "completed" /\ f.seen # "completed"
                                         THEN now
                                         ELSE IF f.status # "completed" /\ f.seen = "completed"
                                         THEN NoDate
                                         ELSE @]]
             /\ last' = Reply("updateTaskStatus", f.actor, f.tid, null, f.status, 200, "ok")
     /\ UNCHANGED <<users, now, edits>>

\* POST /api/tasks in a run where one store call fails: fault names it.
\* "findUser": User.findById of the actor or of the assignee throws, the
\* handler's catch answers 500. "assignable": User.find inside
\* getAssignableUsers throws, its own catch returns [], nobody is assignable.
\* "save": newTask.save() throws. "populate": the document is saved and the
\* read that follows throws.
CreateTaskStoreFault(actor, tid, assigneeId, fault) ==
  /\ UserExists(actor)
  /\ Idle
  /\ ~tasks[tid].exists
  /\ UserExists(assigneeId)
  /\ fault \in {"save", "populate"} => assigneeId \in getAssignableUsers(actor)
  /\ IF fault = "assignable"
     THEN /\ last' = [Reply("createTask", actor, tid, assigneeId, "absent", 403,
                            "You cannot assign tasks to this user")
                        EXCEPT !.fault = fault]
          /\ UNCHANGED tasks
     ELSE IF fault = "populate"
     THEN /\ tasks' = [tasks EXCEPT ![tid] =
                 [exists |-> TRUE, assigneeId |-> assigneeId, createdBy |-> actor,
                  status |-> "not-started", completedDate |-> NoDate, title |-> "t1"]]
          /\ last' = [Reply("createTask", actor, tid, assigneeId, "absent", 500, "Server Error")
                        EXCEPT !.fault = fault]
     ELSE /\ last' = [Reply("createTask", actor, tid, assigneeId, "absent", 500, "Server Error")
                        EXCEPT !.fault = fault]
          /\ UNCHANGED tasks
  /\ UNCHANGED <<users, now, edits, inflight>>

\* DELETE /api/tasks/:id in a run where one store call fails. "findUser" and
\* "findTask": the lookup throws, the handler's catch answers 500.
\* "teamLookup": User.findById inside isUserInManagerTeam throws, its own catch
\* returns false; the lookup is made for a manager who did not create the
\* task. "delete": findByIdAndDelete throws.
DeleteTaskStoreFault(actor, tid, fault) ==
  /\ UserExists(actor)
  /\ Idle
  /\ fault # "findUser" => TaskExists(tid)
  /\ fault = "teamLookup" =>
       /\ users[actor].role = "manager"
       /\ ~(tasks[tid].createdBy # null /\ tasks[tid].createdBy = actor)
  /\ fault = "delete" => canDelete(actor, tid)
  /\ last' =
       IF fault = "teamLookup"
         THEN [Reply("deleteTask", actor, tid, null, "absent", 403, "You cannot delete this task")
                 EXCEPT !.fault = fault]
       ELSE [Reply("deleteTask", actor, tid, null, "absent", 500, "Server error")
               EXCEPT !.fault = fault]
  /\ UNCHANGED <<users, tasks, now, edits, inflight>>

\* res.json(...): the reply leaves the server.
Respond ==
  /\ last # NoRequest
  /\ last' = NoRequest
  /\ UNCHANGED <<users, tasks, now, edits, inflight>>

\* Time passes between requests.
Tick ==
  /\ Idle
  /\ now < MaxClock
  /\ now' = now + 1
  /\ UNCHANGED <<users, tasks, edits, last, inflight>>

----------------------------------------------------------------------------
(* The requests explored *)

\* Bodies of POST /api/users and PUT /api/users/:id
EditActors == {Admin}
EditTargets == {Supervisor, Member}
CreateRoles == {"absent", "member"}
SupervisorRefs == {null, Supervisor}
ManagerRefs == {null, Manager}

\* Bodies of POST /api/tasks
CreateStatuses == {"absent", "completed", "bogus"}
CreateForms == {"complete", "missing", "baddate", "nodescription"}

\* Bodies of PUT /api/tasks/:id: a new assignee together with a new title, a
\* new title alone, a new status alone, an empty title alone.
UpdateBodies ==
  {[assigneeId |-> a, status |-> "absent", title |-> "t2"] : a \in UserIds \cup {null}}
  \cup {[assigneeId |-> null, status |-> st, title |-> "absent"] : st \in {"completed", "bogus"}}
  \cup {[assigneeId |-> null, status |-> "absent", title |-> ""]}

\* Bodies of PUT /api/tasks/:id/status
StatusInputs == {"in-progress", "completed", "bogus"}

Next ==
  \/ \E actor \in EditActors, email \in UserIds, role \in CreateRoles, managerId \in ManagerRefs :
       CreateUser(actor, email, role, null, managerId)
  \/ \E actor \in EditActors, id \in EditTargets,
        supervisorId \in SupervisorRefs, managerId \in ManagerRefs :
       UpdateUser(actor, id, "absent", supervisorId, managerId)
  \/ \E actor \in UserIds, tid \in TaskIds : GetTask(actor, tid)
  \/ \E actor \in UserIds, tid \in TaskIds, assigneeId \in UserIds \cup {null},
        status \in CreateStatuses, form \in CreateForms :
       CreateTask(actor, tid, assigneeId, status, form)
  \/ \E actor \in UserIds, tid \in TaskIds, body \in UpdateBodies :
       UpdateTask(actor, tid, body.assigneeId, body.status, body.title)
  \/ \E actor \in UserIds, tid \in TaskIds, status \in StatusInputs :
       UpdateTaskStatus(actor, tid, status)
  \/ \E actor \in UserIds, tid \in TaskIds : DeleteTask(actor, tid)
  \/ Respond

Spec == Init /\ [][Next]_vars

----------------------------------------------------------------------------
(* The hierarchy resolver under a wider range of identity-store edits *)

ResolverCreateRoles == {"absent", "member", "supervisor"}
ResolverEditRoles == {"absent", "manager"}
ResolverSupervisorRefs == {null, Supervisor, 5}
ResolverManagerRefs == {null, Manager}

NextResolver ==
  \/ \E actor \in EditActors, email \in UserIds, role \in ResolverCreateRoles,
        supervisorId \in {null, Supervisor}, managerId \in ResolverManagerRefs :
       CreateUser(actor, email, role, supervisorId, managerId)
  \/ \E actor \in EditActors, id \in UserIds, role \in ResolverEditRoles,
        supervisorId \in ResolverSupervisorRefs, managerId \in ResolverManagerRefs :
       UpdateUser(actor, id, role, supervisorId, managerId)
  \/ \E actor \in UserIds : ListAssignableUsers(actor)
  \/ \E actor \in UserIds, userId \in UserIds : ListUserTasks(actor, userId)
  \/ Respond

SpecResolver == Init /\ [][NextResolver]_vars

----------------------------------------------------------------------------
(* The life of one task while the clock runs: creation, updates and status
   updates by the seeded accounts. *)

CompletionActors == {Admin, Member}
CompletionStatuses == {"absent", "in-progress", "completed"}
CompletionBodies ==
  {[assigneeId |-> null, status |-> st, title |-> "absent"] : st \in {"in-progress", "completed"}}
  \cup {[assigneeId |-> null, status |-> "absent", title |-> "t2"]}

NextCompletion ==
  \/ \E actor \in CompletionActors, assigneeId \in {Member, 5}, tid \in TaskIds,
        status \in CompletionStatuses :
       CreateTask(actor, tid, assigneeId, status, "complete")
  \/ \E actor \in CompletionActors, tid \in TaskIds, body \in CompletionBodies :
       UpdateTask(actor, tid, body.assigneeId, body.status, body.title)
  \/ \E actor \in CompletionActors, tid \in TaskIds, status \in StatusInputs :
       UpdateTaskStatus(actor, tid, status)
  \/ \E actor \in CompletionActors, tid \in TaskIds : DeleteTask(actor, tid)
  \/ Tick
  \/ Respond

SpecCompletion == Init /\ [][NextCompletion]_vars

----------------------------------------------------------------------------
(* User management: registration, approval, rejection, deletion, role changes
   and the generic create / update routes, with the two public routes of
   routes/auth.js that answer for an e-mail address. *)

AdminActors == {Admin, Manager, 5}        \* who calls the super-admin routes
UserTargets == {Admin, Member, 5}
GenericActors == {Manager, 5}             \* who calls POST / PUT /api/users
ApproveRoles == {"member", "supervisor", "pending"}
NewRoles == {"super_admin", "bogus"}
Addresses == {Member, 5}                  \* of an account, of no account (yet)

NextUsers ==
  \/ \E email \in Addresses : Register(email)
  \/ \E actor \in GenericActors, role \in {"absent", "super_admin"} :
       CreateUser(actor, 5, role, null, null)
  \/ \E actor \in GenericActors, id \in {Member, 5} :
       UpdateUser(actor, id, "super_admin", null, Manager)
  \/ \E actor \in AdminActors : ListUsers(actor)
  \/ \E actor \in AdminActors, userId \in UserTargets, role \in ApproveRoles,
        supervisorId \in {null, Supervisor}, managerId \in {null, Manager}, emailOk \in BOOLEAN :
       ApproveUser(actor, userId, role, supervisorId, managerId, emailOk)
  \/ \E actor \in AdminActors, userId \in UserTargets, emailOk \in BOOLEAN :
       RejectUser(actor, userId, emailOk)
  \/ \E actor \in AdminActors, userId \in UserTargets : DeleteUser(actor, userId)
  \/ \E actor \in AdminActors, userId \in UserTargets, role \in NewRoles :
       ChangeUserRole(actor, userId, role)
  \/ \E actor \in AdminActors, userId \in UserTargets, role \in {"member", "pending"} :
       AuthApproveUser(actor, userId, role, null, null)
  \/ \E actor \in AdminActors, userId \in UserTargets : AuthRejectUser(actor, userId)
  \/ \E email \in Addresses, password \in {"right", "wrong"} : Login(email, password)
  \/ \E email \in Addresses, emailOk \in BOOLEAN : ForgotPassword(email, emailOk)
  \/ Respond

SpecUsers == Init /\ [][NextUsers]_vars

----------------------------------------------------------------------------
(* Task requests while the store may fail *)

FaultActors == {Admin, Manager, Member}
CreateFaults == {"findUser", "assignable", "save", "populate"}
DeleteFaults == {"findUser", "findTask", "teamLookup", "delete"}

NextStoreFault ==
  \/ \E actor \in EditActors, id \in EditTargets, managerId \in ManagerRefs :
       UpdateUser(actor, id, "absent", null, managerId)
  \/ \E actor \in FaultActors, tid \in TaskIds, assigneeId \in {Manager, Member} :
       CreateTask(actor, tid, assigneeId, "absent", "complete")
  \/ \E actor \in FaultActors, tid \in TaskIds, assigneeId \in {Manager, Member},
        fault \in CreateFaults :
       CreateTaskStoreFault(actor, tid, assigneeId, fault)
  \/ \E actor \in FaultActors, tid \in TaskIds : DeleteTask(actor, tid)
  \/ \E actor \in FaultActors, tid \in TaskIds, fault \in DeleteFaults :
       DeleteTaskStoreFault(actor, tid, fault)
  \/ Respond

SpecStoreFault == Init /\ [][NextStoreFault]_vars

----------------------------------------------------------------------------
(* Tasks seen through the list and one by one, while the hierarchy is edited
   and users are removed *)

ViewActors == {Admin, Manager, Supervisor, Member}
ViewAssignees == {Manager, Member}

NextViews ==
  \/ \E email \in NewIds : Register(email)
  \/ \E actor \in EditActors, id \in EditTargets,
        supervisorId \in SupervisorRefs, managerId \in ManagerRefs :
       UpdateUser(actor, id, "absent", supervisorId, managerId)
  \/ \E actor \in ViewActors, tid \in TaskIds, assigneeId \in ViewAssignees :
       CreateTask(actor, tid, assigneeId, "absent", "complete")
  \/ \E actor \in ViewActors : ListTasks(actor)
  \/ \E actor \in ViewActors, tid \in TaskIds : GetTask(actor, tid)
  \/ \E actor \in EditActors, userId \in {Manager, Member, 5} : DeleteUser(actor, userId)
  \/ \E actor \in EditActors, userId \in {Member, 5}, emailOk \in BOOLEAN :
       RejectUser(actor, userId, emailOk)
  \/ Respond

SpecViews == Init /\ [][NextViews]_vars

----------------------------------------------------------------------------
(* Status updates of one task that overlap *)

RaceActors == {Admin, Member}
RaceStatuses == {"in-progress", "completed"}

NextStatusRace ==
  \/ \E actor \in RaceActors, tid \in TaskIds :
       CreateTask(actor, tid, Member, "absent", "complete")
  \/ \E slot \in Slots, actor \in RaceActors, tid \in TaskIds, status \in RaceStatuses :
       BeginUpdateTaskStatus(slot, actor, tid, status)
  \/ \E slot \in Slots : CommitUpdateTaskStatus(slot)
  \/ Tick
  \/ Respond

SpecStatusRace == Init /\ [][NextStatusRace]_vars

----------------------------------------------------------------------------
(* The reporting references while users are approved, re-roled and removed.
   Every reference sent names a user of the right role at the outset. *)

HierarchyTargets == {Manager, Supervisor}
HierarchyRoles == {"member", "supervisor"}

NextHierarchy ==
  \/ \E email \in NewIds : Register(email)
  \/ \E actor \in EditActors, email \in NewIds,
        supervisorId \in SupervisorRefs, managerId \in ManagerRefs :
       CreateUser(actor, email, "member", supervisorId, managerId)
  \/ \E actor \in EditActors, id \in EditTargets,
        supervisorId \in SupervisorRefs, managerId \in ManagerRefs :
       UpdateUser(actor, id, "absent", supervisorId, managerId)
  \/ \E actor \in EditActors, userId \in NewIds,
        supervisorId \in SupervisorRefs, managerId \in ManagerRefs :
       ApproveUser(actor, userId, "member", supervisorId, managerId, TRUE)
  \/ \E actor \in EditActors, userId \in NewIds : RejectUser(actor, userId, TRUE)
  \/ \E actor \in EditActors, userId \in HierarchyTargets : DeleteUser(actor, userId)
  \/ \E actor \in EditActors, userId \in HierarchyTargets, role \in HierarchyRoles :
       ChangeUserRole(actor, userId, role)
  \/ Respond

SpecHierarchy == Init /\ [][NextHierarchy]_vars

----------------------------------------------------------------------------
(* Approval and rejection with a notifier and a store that may each fail *)

NextNotifier ==
  \/ \E email \in Addresses : Register(email)
  \/ \E actor \in AdminActors, userId \in UserTargets, role \in ApproveRoles,
        supervisorId \in SupervisorRefs, managerId \in ManagerRefs, emailOk \in BOOLEAN :
       ApproveUser(actor, userId, role, supervisorId, managerId, emailOk)
  \/ \E actor \in AdminActors, userId \in UserTargets, role \in ApproveRoles :
       ApproveUserStoreFault(actor, userId, role)
  \/ \E actor \in AdminActors, userId \in UserTargets, emailOk \in BOOLEAN :
       RejectUser(actor, userId, emailOk)
  \/ \E actor \in AdminActors, userId \in UserTargets, emailOk \in BOOLEAN :
       RejectUserStoreFault(actor, userId, emailOk)
  \/ \E actor \in AdminActors, userId \in UserTargets : DeleteUser(actor, userId)
  \/ Respond

SpecNotifier == Init /\ [][NextNotifier]_vars

----------------------------------------------------------------------------
(* Approvals and rejections of one pending user that overlap *)

RaceRoles == {"member", "supervisor"}

NextApprovalRace ==
  \/ \E email \in NewIds : Register(email)
  \/ \E slot \in Slots, actor \in EditActors, userId \in NewIds, role \in RaceRoles :
       BeginApproveUser(slot, actor, userId, role)
  \/ \E slot \in Slots : CommitApproveUser(slot)
  \/ \E slot \in Slots, actor \in EditActors, userId \in NewIds :
       BeginRejectUser(slot, actor, userId)
  \/ \E slot \in Slots : CommitRejectUser(slot)
  \/ Tick
  \/ Respond

SpecApprovalRace == Init /\ [][NextApprovalRace]_vars

----------------------------------------------------------------------------
(* The super admins while roles are changed and users are removed, with role
   changes that overlap *)

SuperAdmins == {Admin, Manager}
AdminRaceRoles == {"super_admin", "member"}

NextAdminRace ==
  \/ \E email \in NewIds : Register(email)
  \/ \E slot \in Slots, actor \in SuperAdmins, userId \in SuperAdmins,
        role \in AdminRaceRoles :
       BeginChangeUserRole(slot, actor, userId, role)
  \/ \E slot \in Slots : CommitChangeUserRole(slot)
  \/ \E actor \in SuperAdmins, userId \in UserTargets : DeleteUser(actor, userId)
  \/ \E actor \in SuperAdmins, userId \in UserTargets, emailOk \in BOOLEAN :
       RejectUser(actor, userId, emailOk)
  \/ \E actor \in SuperAdmins, userId \in UserTargets : AuthRejectUser(actor, userId)
  \/ \E actor \in SuperAdmins, id \in SuperAdmins, role \in {"absent", "member"} :
       UpdateUser(actor, id, role, null, null)
  \/ Respond

SpecAdminRace == Init /\ [][NextAdminRace]_vars

----------------------------------------------------------------------------
(* Task authorization *)

\* The delete rule set of the authorization table
MayDelete(a, t) ==
  \/ users[a].role = "super_admin"
  \/ /\ users[a].role = "manager"
     /\ (tasks[t].createdBy = a \/ isUserInManagerTeam(tasks[t].assigneeId, a))

\* C1: deleteTask removes the task if and only if the actor is a super_admin, or
\* a manager who created the task or whose team holds the assignee; a supervisor,
\* member or pending actor always gets Forbidden and the task stays in the store,
\* also when that actor is the creator or the assignee.
C1_DeleteTaskRule ==
  [][(last'.op = "deleteTask" /\ TaskExists(last'.tid)) =>
       LET a == last'.actor
           t == last'.tid
       IN /\ (~tasks'[t].exists) <=> MayDelete(a, t)
          /\ MayDelete(a, t) => last'.code = 200
          /\ ~MayDelete(a, t) => (last'.code = 403 /\ tasks' = tasks)
          /\ users[a].role \in {"supervisor", "member", "pending"} =>
               (last'.code = 403 /\ tasks' = tasks)]_vars

\* A manager has deleted a task.
C1_Witness ==
  /\ last.op = "deleteTask"
  /\ last.code = 200
  /\ users[last.actor].role = "manager"
  /\ ~tasks[last.tid].exists

\* The view rule set of the authorization table
MayView(a, t) ==
  \/ users[a].role = "super_admin"
  \/ tasks[t].createdBy = a
  \/ (users[a].role = "manager" /\ isUserInManagerTeam(tasks[t].assigneeId, a))
  \/ /\ users[a].role = "supervisor"
     /\ \/ tasks[t].assigneeId = a
        \/ (UserExists(tasks[t].assigneeId) /\ users[tasks[t].assigneeId].supervisorId = a)
  \/ (users[a].role = "member" /\ tasks[t].assigneeId = a)

\* C2: getTask returns the task if and only if a view rule holds (super_admin;
\* creator, whatever the role; manager of the assignee's team; supervisor who is
\* the assignee or the assignee's supervisor; member who is the assignee), and
\* answers Forbidden otherwise.
C2_GetTaskViewRules ==
  (last.op = "getTask" /\ TaskExists(last.tid)) =>
     IF MayView(last.actor, last.tid) THEN last.code = 200 ELSE last.code = 403

\* The edit rule set of the authorization table
MayEdit(a, t) ==
  \/ tasks[t].createdBy = a
  \/ users[a].role = "super_admin"
  \/ (users[a].role = "manager" /\ isUserInManagerTeam(tasks[t].assigneeId, a))
  \/ /\ users[a].role = "supervisor"
     /\ UserExists(tasks[t].assigneeId)
     /\ users[tasks[t].assigneeId].supervisorId = a
  \/ (tasks[t].assigneeId = a /\ users[a].role \in {"supervisor", "manager", "super_admin"})

\* C3: updateTask passes the edit check if and only if an edit rule holds
\* (creator; super_admin; manager of the assignee's team; supervisor of the
\* assignee; assignee with role supervisor, manager or super_admin); a member who
\* is the assignee but not the creator gets Forbidden and the task is unchanged.
C3_EditCheck ==
  [][(last'.op = "updateTask" /\ TaskExists(last'.tid)) =>
       LET a == last'.actor
           t == last'.tid
       IN /\ (last'.msg # "You cannot edit this task") <=> MayEdit(a, t)
          /\ ~MayEdit(a, t) => (last'.code = 403 /\ tasks' = tasks)
          /\ (users[a].role = "member" /\ tasks[t].assigneeId = a /\ tasks[t].createdBy # a) =>
               (last'.code = 403 /\ tasks' = tasks)]_vars

\* A member who is the assignee and not the creator was refused the edit.
C3_Witness ==
  /\ last.op = "updateTask"
  /\ last.code = 403
  /\ last.msg = "You cannot edit this task"
  /\ TaskExists(last.tid)
  /\ users[last.actor].role = "member"
  /\ tasks[last.tid].assigneeId = last.actor
  /\ tasks[last.tid].createdBy # last.actor

\* The reassignment rule set of the authorization table, for new assignee n
MayReassign(a, t, n) ==
  /\ MayEdit(a, t)
  /\ \/ tasks[t].createdBy = a
     \/ (tasks[t].assigneeId = a /\ users[a].role \in {"supervisor", "manager", "super_admin"})
     \/ users[a].role \in {"manager", "super_admin"}
  /\ n \in getAssignableUsers(a)

\* An updateTask request that names another assignee than the current one
IsReassignment ==
  /\ last'.op = "updateTask"
  /\ TaskExists(last'.tid)
  /\ last'.target # null
  /\ last'.target # tasks[last'.tid].assigneeId

MayUpdateStatus(a, t) ==
  \/ tasks[t].assigneeId = a
  \/ tasks[t].createdBy = a
  \/ (users[a].role = "manager" /\ isUserInManagerTeam(tasks[t].assigneeId, a))
  \/ /\ users[a].role = "supervisor"
     /\ UserExists(tasks[t].assigneeId)
     /\ users[tasks[t].assigneeId].supervisorId = a
  \/ users[a].role = "super_admin"

\* C5: updateTaskStatus writes the status if and only if the status is one of
\* not-started, in-progress, completed and a status rule holds (assignee of any
\* role; creator; manager of the assignee's team; supervisor of the assignee;
\* super_admin); otherwise the task is unchanged.
C5_StatusRule ==
  [][(last'.op = "updateTaskStatus" /\ TaskExists(last'.tid)) =>
       LET a == last'.actor
           t == last'.tid
           applied == last'.code = 200 /\ tasks'[t].status = last'.status
       IN /\ applied <=> (last'.status \in {"not-started", "in-progress", "completed"}
                            /\ MayUpdateStatus(a, t))
          /\ ~applied => tasks' = tasks]_vars

\* A member who is the assignee and not the creator has set the status.
C5_Witness ==
  /\ last.op = "updateTaskStatus"
  /\ last.code = 200
  /\ users[last.actor].role = "member"
  /\ tasks[last.tid].assigneeId = last.actor
  /\ tasks[last.tid].createdBy # last.actor
  /\ tasks[last.tid].status = last.status

\* C6: createTask creates a task only if the actor has status active and the
\* assignee is in assignableUsers(actor); the created task has createdBy = actor.
C6_CreateOnlyByActive ==
  (last.op = "createTask" /\ last.code = 201) =>
     /\ users[last.actor].status = "active"
     /\ last.target \in getAssignableUsers(last.actor)
     /\ tasks[last.tid].exists
     /\ tasks[last.tid].createdBy = last.actor

----------------------------------------------------------------------------
(* Hierarchy resolver *)

\* C7: for a member m and any manager id mgr, isInManagerTeam(m, mgr) holds if
\* and only if m.managerId = mgr or m.supervisorId references a user whose
\* managerId = mgr; it is false for a user that does not exist.
C7_MemberTeamRule ==
  \A m \in UserIds, mgr \in UserIds :
     /\ (users[m].exists /\ users[m].role = "member") =>
          (isUserInManagerTeam(m, mgr) <=>
             \/ users[m].managerId = mgr
             \/ /\ users[m].supervisorId # null
                /\ UserExists(users[m].supervisorId)
                /\ users[users[m].supervisorId].managerId = mgr)
     /\ ~users[m].exists => ~isUserInManagerTeam(m, mgr)

\* A manager was shown the tasks of a member who is in the team only through
\* the member's supervisor.
C7_Witness ==
  /\ last.op = "userTasks"
  /\ last.code = 200
  /\ users[last.actor].role = "manager"
  /\ users[last.target].exists
  /\ users[last.target].role = "member"
  /\ users[last.target].managerId # last.actor

\* C8: assignableUsers(M) of a manager M never contains M and contains every
\* active supervisor with managerId = M, every active member with managerId = M,
\* every active member whose supervisorId references a supervisor with
\* managerId = M (whatever that supervisor's status), and every other active
\* manager.
C8_ManagerAssignable ==
  (last.op = "assignableUsers" /\ users[last.actor].role = "manager") =>
     LET M == last.actor IN
       /\ M \notin last.list
       /\ \A u \in ActiveUsers :
            ( \/ (users[u].role = "supervisor" /\ users[u].managerId = M)
              \/ (users[u].role = "member" /\ users[u].managerId = M)
              \/ /\ users[u].role = "member"
                 /\ users[u].supervisorId # null
                 /\ UserExists(users[u].supervisorId)
                 /\ users[users[u].supervisorId].role = "supervisor"
                 /\ users[users[u].supervisorId].managerId = M
              \/ (users[u].role = "manager" /\ u # M) )
            => u \in last.list

\* C9: a member m is in assignableUsers(a) only if a is a super_admin, m itself,
\* m's supervisor, or m's manager (directly or through m's supervisor).
C9_MemberAssignableBy ==
  last.op = "assignableUsers" =>
     \A m \in last.list :
        users[m].role = "member" =>
          LET a == last.actor IN
            \/ users[a].role = "super_admin"
            \/ a = m
            \/ users[m].supervisorId = a
            \/ users[m].managerId = a
            \/ /\ users[m].supervisorId # null
               /\ UserExists(users[m].supervisorId)
               /\ users[users[m].supervisorId].managerId = a

\* A manager's list holds a member who reports to one of the manager's
\* supervisors and not to the manager directly.
C9_Witness ==
  /\ last.op = "assignableUsers"
  /\ users[last.actor].role = "manager"
  /\ \E m \in last.list :
        /\ users[m].role = "member"
        /\ users[m].managerId # last.actor

\* C10: every user returned by assignableUsers has status active, for an actor
\* of any role; an actor whose role is none of the four real roles gets the
\* empty set.
C10_AssignableAreActive ==
  last.op = "assignableUsers" =>
     /\ \A u \in last.list : users[u].status = "active"
     /\ users[last.actor].role \notin {"super_admin", "manager", "supervisor", "member"} =>
          last.list = {}

----------------------------------------------------------------------------
(* Completion dates *)

\* C11: in every state reached by sequential createTask, updateTask and
\* updateTaskStatus calls a task has a completedDate if and only if its status
\* is completed.
C11_CompletedDateIffCompleted ==
  \A t \in TaskIds :
     tasks[t].exists => (tasks[t].completedDate # NoDate <=> tasks[t].status = "completed")

\* C12: an updateTaskStatus that sends the status the task already has (as a
\* first call with that status leaves it: a completed task carries its
\* completedDate) leaves completedDate as it was.
C12_SameStatusKeepsDate ==
  [][(/\ last'.op = "updateTaskStatus"
      /\ last'.code = 200
      /\ tasks[last'.tid].exists
      /\ tasks[last'.tid].status = last'.status
      /\ (last'.status = "completed" => tasks[last'.tid].completedDate # NoDate))
     => tasks'[last'.tid].completedDate = tasks[last'.tid].completedDate]_vars

\* completed was sent again at a later instant to a task completed earlier:
\* the date of the first completion is still there.
C12_Witness ==
  /\ last.op = "updateTaskStatus"
  /\ last.code = 200
  /\ last.status = "completed"
  /\ tasks[last.tid].status = "completed"
  /\ tasks[last.tid].completedDate # NoDate
  /\ tasks[last.tid].completedDate < now

----------------------------------------------------------------------------
(* User management *)

\* The target of a user-management request is a user awaiting approval.
IsPending(u) ==
  /\ users[u].exists
  /\ users[u].status = "pending_approval"
  /\ users[u].role = "pending"

\* C13: no request of an actor whose stored role is not super_admin changes a
\* user's role, approves or rejects a user, deletes a user record or obtains
\* the list of all users, the generic create-user and update-user requests
\* included.
C13_OnlySuperAdminManages ==
  [][(/\ last'.op # "none"
      /\ last'.actor # null
      /\ users[last'.actor].exists
      /\ users[last'.actor].role # "super_admin")
     => /\ \A u \in UserIds :
             users[u].exists =>
               /\ users'[u].exists
               /\ users'[u].role = users[u].role
               /\ users'[u].status = users[u].status
        /\ last'.op = "listUsers" => last'.code # 200]_vars

\* C14: no request of a user U deletes U's own record or changes U's own role;
\* deleteUser(U, U) and changeUserRole(U, U, r) are Forbidden and change
\* nothing.
C14_NoSelfDeleteOrRoleChange ==
  [][(/\ last'.op # "none"
      /\ last'.actor # null
      /\ last'.actor = last'.target
      /\ users[last'.actor].exists)
     => /\ users'[last'.actor].exists
        /\ users'[last'.actor].role = users[last'.actor].role
        /\ last'.op \in {"deleteUser", "changeUserRole"} =>
             (last'.code = 403 /\ users' = users)]_vars

\* C15: deleteUser on a target whose role is super_admin is Forbidden for every
\* actor, another super_admin included, and the target's record stays.
C15_SuperAdminNotDeletable ==
  [][(/\ last'.op = "deleteUser"
      /\ UserExists(last'.target)
      /\ users[last'.target].role = "super_admin")
     => (last'.code = 403 /\ users' = users)]_vars

\* A super_admin asked for the deletion of another super_admin and was refused.
C15_Witness ==
  /\ last.op = "deleteUser"
  /\ last.code = 403
  /\ last.actor # last.target
  /\ users[last.actor].role = "super_admin"
  /\ users[last.target].exists
  /\ users[last.target].role = "super_admin"

\* The references an approved document carries befit the role it was given.
HierarchyValid(u, role) ==
  LET s == users'[u].supervisorId
      m == users'[u].managerId
      managerOk == m # null /\ users'[m].exists /\ users'[m].role = "manager"
      supervisorOk == s # null /\ users'[s].exists /\ users'[s].role = "supervisor"
  IN /\ role \in {"super_admin", "manager", "supervisor", "member"}
     /\ role = "member" => (supervisorOk /\ managerOk)
     /\ role = "supervisor" => managerOk

\* C16: approveUser succeeds only with one of the four real roles and, for a
\* member, a supervisorId naming a supervisor and a managerId naming a manager,
\* for a supervisor a managerId naming a manager; otherwise it is a validation
\* error and the target is unchanged.
C16_ApprovalValidated ==
  [][last'.op = "approveUser" =>
       /\ last'.code = 200 => HierarchyValid(last'.target, last'.role)
       /\ last'.code # 200 => users' = users]_vars

\* C17: approveUser and rejectUser take effect only on a target with status
\* pending_approval and role pending: approve makes it active with the given
\* role, approvedBy and approvedAt, reject removes it; on any other user both
\* fail and change nothing.
C17_OnlyFromPending ==
  [][(last'.op \in {"approveUser", "rejectUser"} /\ UserExists(last'.target)) =>
       LET t == last'.target IN
         /\ ~IsPending(t) => (last'.code # 200 /\ users' = users)
         /\ (last'.op = "approveUser" /\ last'.code = 200) =>
              /\ users'[t].status = "active"
              /\ users'[t].role = last'.role
              /\ users'[t].approvedBy = last'.actor
              /\ users'[t].approvedAt # NoDate
         /\ (last'.op = "rejectUser" /\ last'.code = 200) => ~users'[t].exists]_vars

\* C18: when the notifier fails during approveUser or rejectUser the request
\* still succeeds and the identity store ends as it does when the notifier
\* succeeds: the target active with the given role, or its record gone.
C18_NotifierFailureSwallowed ==
  [][(last'.op \in {"approveUser", "rejectUser"} /\ last'.email = "failed") =>
       LET t == last'.target IN
         /\ last'.code = 200
         /\ last'.op = "approveUser" =>
              /\ last'.msg = "User approved successfully"
              /\ \E s \in UserIds \cup {null}, m \in UserIds \cup {null} :
                    users' = [users EXCEPT ![t] =
                                ApprovedUser(@, last'.actor, last'.role, s, m)]
         /\ last'.op = "rejectUser" =>
              /\ last'.msg = "User rejected and removed successfully"
              /\ users' = [users EXCEPT ![t] = NoUser]]_vars

\* An approval went through although its notification could not be sent.
C18_Witness ==
  /\ last.op = "approveUser"
  /\ last.email = "failed"
  /\ last.code = 200
  /\ users[last.target].status = "active"
  /\ users[last.target].approvedBy = last.actor

\* C19: login with a wrong password and forgot-password answer an address
\* that belongs to an account exactly as they answer one that belongs to none.
C19_NoAccountEnumeration ==
  /\ (last.op = "login" /\ last.password = "wrong") =>
       (last.code = 400 /\ last.msg = "Invalid credentials")
  /\ last.op = "forgotPassword" =>
       /\ last.code = 200
       /\ last.msg = "If an account with this email exists, we have sent password reset instructions."

\* C20: no request authenticated as a user with role pending and status
\* pending_approval reads, creates, changes or deletes a task, or creates or
\* changes a user record, the user's own included.
C20_PendingHasNoPrivileges ==
  [][(/\ last'.op # "none"
      /\ last'.actor # null
      /\ IsPending(last'.actor))
     => /\ users' = users
        /\ tasks' = tasks
        /\ last'.op \in {"getTask", "userTasks"} => last'.code # 200]_vars

----------------------------------------------------------------------------
(* Store failures *)

\* C21: a store failure at any read or write inside a task operation, the
\* user lookups of isUserInManagerTeam and getAssignableUsers included, is
\* answered with a store-unavailable error (never Forbidden, NotFound or a
\* validation failure) and leaves the task store unchanged.
C21_StoreFailureSurfaces ==
  [][last'.fault # "none" => (last'.code = 500 /\ tasks' = tasks)]_vars

----------------------------------------------------------------------------
(* Lists, deletions and dangling references *)

\* getTask(actor, t) answers with the task.
Opens(a, t) ==
  /\ TaskExists(t)
  /\ users[a].role = "super_admin" \/ UserExists(tasks[t].assigneeId)
  /\ hasViewPermission(a, t)

\* C22: a task is in listTasks(actor) if and only if getTask(actor, t) answers
\* with the task.
C22_ListMatchesGet ==
  (last.op = "listTasks" /\ last.code = 200) =>
     \A t \in TaskIds : t \in last.list <=> Opens(last.actor, t)

\* C27: deleteUser and rejectUser leave the task store as it was, the tasks
\* assigned to or created by the removed user included.
C27_UserRemovalKeepsTasks ==
  [][last'.op \in {"deleteUser", "rejectUser"} => tasks' = tasks]_vars

\* A user was deleted while a task assigned to that user was in the store; the
\* task is still there.
C27_Witness ==
  /\ last.op = "deleteUser"
  /\ last.code = 200
  /\ ~users[last.target].exists
  /\ \E t \in TaskIds : tasks[t].exists /\ tasks[t].assigneeId = last.target

\* C28: getTask on a task that is in the store answers with the task or with
\* Forbidden, also when the task's assignee or creator has been deleted.
C28_GetTaskNeverFails ==
  (last.op = "getTask" /\ TaskExists(last.tid)) => last.code \in {200, 403}

\* C23: once every updateTaskStatus request on a task has finished, the task
\* has a completedDate if and only if its status is completed, however the
\* requests overlapped.
C23_CompletionAtomicWithStatus ==
  (\A s \in Slots : inflight[s] = NoFlight) =>
     \A t \in TaskIds :
        tasks[t].exists => (tasks[t].completedDate # NoDate <=> tasks[t].status = "completed")

\* C24: an updateTask call that sends no status, or the status the task
\* already has, leaves completedDate as it was.
C24_UpdateWithoutStatusChangeKeepsDate ==
  [][(last'.op = "updateTask" /\ last'.code = 200
        /\ (last'.status = "absent" \/ last'.status = tasks[last'.tid].status))
       => tasks'[last'.tid].completedDate = tasks[last'.tid].completedDate]_vars

\* C25: every supervisorId that is not null names an existing user whose role
\* is supervisor, and every managerId that is not null an existing user whose
\* role is manager.
C25_ReferencesValid ==
  \A u \in UserIds :
     users[u].exists =>
        /\ users[u].supervisorId # null =>
             (UserExists(users[u].supervisorId)
                /\ users[users[u].supervisorId].role = "supervisor")
        /\ users[u].managerId # null =>
             (UserExists(users[u].managerId) /\ users[users[u].managerId].role = "manager")

\* C26: approveUser and rejectUser send the notification only after their
\* write to the user store has committed: no notification goes out for an
\* approval or a rejection that leaves the store as it was.
C26_NotifyAfterCommit ==
  [][(last'.op \in {"approveUser", "rejectUser"} /\ last'.email = "sent")
       => users' # users]_vars

\* C29: of the approvals and rejections of one pending user that overlap at
\* most one takes effect: a write of approveUser or rejectUser to the user
\* store finds the user still pending.
C29_OneDecisionTakesEffect ==
  [][(last'.op \in {"approveUser", "rejectUser"} /\ users' # users)
       => IsPending(last'.target)]_vars

\* C30: at least one user with role super_admin exists in every state.
C30_SuperAdminRemains ==
  \E u \in UserIds : users[u].exists /\ users[u].role = "super_admin"

====
